---- MODULE Spec2Model ----
(***************************************************************************)
(* Component Analyzer (src/app.py): the spreadsheet expansion and counting, *)
(* the three-strategy extraction of component identifiers from the PDF,     *)
(* the classification into condition sets, the highlight colours, the       *)
(* report sheets and the life of the temporary files of one run.            *)
(*                                                                          *)
(* A Python str is a sequence of one-character strings: "R12" is            *)
(* <<"R", "1", "2">>.                                                       *)
(***************************************************************************)
EXTENDS Naturals, Sequences, FiniteSets

VARIABLES
    pc,                 \* position of the script run
    tmp_files,          \* temporary input files on disk (input_excel_file, input_pdf_file)
    output_files,       \* output files on disk
    errors,             \* st.error messages shown
    excel_file,         \* the uploaded spreadsheet: a sequence of rows
    df,                 \* the DataFrame: a sequence of rows
    component_columns,  \* st.multiselect selection
    valid_prefixes,     \* list of prefixes
    expanded_rows,      \* list of rows with 'Merged Components'
    excel_components,   \* set of spreadsheet identifiers
    excel_counts,       \* Counter of spreadsheet identifiers
    num_pages,          \* pages of the opened document
    page_num,           \* pages already processed by the running strategy
    components,         \* list of (word, page_num, word_tuple) of extract_components_from_pdf
    warnings,           \* st.warning messages shown
    started,            \* history: strategies started, in order
    finished,           \* history: strategies whose block was left (ended or raised)
    threw,              \* history: strategies that raised
    contributed,        \* history: observations each strategy appended to components
    lastRead,           \* history: what the last page step read (words or text)
    lastBase,           \* history: len(components) before the last page step
    pdf_counts,         \* Counter of document identifiers
    repeated_pdf, repeated_excel, in_pdf_not_excel, in_excel_not_pdf,
    markers,            \* highlight annotations added to the document
    condition_components, \* the identifiers of the five conditions
    report              \* the rows of the five report sheets

vars == <<pc, tmp_files, output_files, errors, excel_file, df, component_columns, valid_prefixes,
          expanded_rows, excel_components, excel_counts, num_pages, page_num,
          components, warnings, started, finished, threw, contributed, lastRead,
          lastBase, pdf_counts, repeated_pdf, repeated_excel, in_pdf_not_excel,
          in_excel_not_pdf, markers, condition_components, report>>

fileVars    == <<tmp_files, output_files, errors, excel_file>>
sheetVars   == <<df, expanded_rows, excel_components, excel_counts>>
configVars  == <<component_columns, valid_prefixes>>
extractVars == <<num_pages, page_num, components, warnings, started, finished,
                 threw, contributed, lastRead, lastBase>>
analyzeVars == <<pdf_counts, repeated_pdf, repeated_excel, in_pdf_not_excel,
                 in_excel_not_pdf>>
reportVars  == <<markers, condition_components, report>>

----------------------------------------------------------------------------
(* Bounds of the model *)

MaxPages == 2
MaxTokenLen == 3
MaxRows == 2

----------------------------------------------------------------------------
(* Characters and Python's str methods *)

Digits == {"0", "1", "2", "3", "4", "5", "6", "7", "8", "9"}

UpperSeq == <<"A", "B", "C", "D", "E", "F", "G", "H", "I", "J", "K", "L", "M",
              "N", "O", "P", "Q", "R", "S", "T", "U", "V", "W", "X", "Y", "Z">>

LowerSeq == <<"a", "b", "c", "d", "e", "f", "g", "h", "i", "j", "k", "l", "m",
              "n", "o", "p", "q", "r", "s", "t", "u", "v", "w", "x", "y", "z">>

UpperLetters == {UpperSeq[i] : i \in 1..26}
LowerLetters == {LowerSeq[i] : i \in 1..26}
Whitespace == {" ", "\t", "\n"}

\* Code point order of the characters the inputs are drawn from
CodeOrder == <<"\t", "\n", " ", ",", "-">> \o
             <<"0", "1", "2", "3", "4", "5", "6", "7", "8", "9">> \o
             UpperSeq \o LowerSeq

Ord(c) == CHOOSE i \in 1..Len(CodeOrder) : CodeOrder[i] = c

IsAlnum(c) == c \in Digits \cup UpperLetters \cup LowerLetters

UpperChar(c) ==
    IF c \in LowerLetters
    THEN UpperSeq[CHOOSE i \in 1..26 : LowerSeq[i] = c]
    ELSE c

\* str.upper()
str_upper(s) == IF s = <<>> THEN <<>> ELSE [i \in 1..Len(s) |-> UpperChar(s[i])]

RECURSIVE str_lstrip(_)
str_lstrip(s) ==
    IF s # <<>> /\ Head(s) \in Whitespace THEN str_lstrip(Tail(s)) ELSE s

RECURSIVE str_rstrip(_)
str_rstrip(s) ==
    IF s # <<>> /\ s[Len(s)] \in Whitespace
    THEN str_rstrip(SubSeq(s, 1, Len(s) - 1))
    ELSE s

\* str.strip()
str_strip(s) == str_rstrip(str_lstrip(s))

\* str.split(sep): the pieces between the separators, at least one piece
RECURSIVE str_split(_, _)
str_split(s, sep) ==
    IF \A i \in 1..Len(s) : s[i] # sep
    THEN <<s>>
    ELSE LET i == CHOOSE k \in 1..Len(s) :
                      s[k] = sep /\ \A j \in 1..(k - 1) : s[j] # sep
         IN  <<SubSeq(s, 1, i - 1)>> \o str_split(SubSeq(s, i + 1, Len(s)), sep)

\* str.startswith(prefix)
startswith(word, prefix) ==
    Len(prefix) <= Len(word) /\ SubSeq(word, 1, Len(prefix)) = prefix

\* Python's < on str
RECURSIVE StrLess(_, _)
StrLess(a, b) ==
    IF a = <<>> THEN b # <<>>
    ELSE IF b = <<>> THEN FALSE
    ELSE IF Head(a) = Head(b) THEN StrLess(Tail(a), Tail(b))
    ELSE Ord(Head(a)) < Ord(Head(b))

\* sorted(set of str)
RECURSIVE sorted(_)
sorted(S) ==
    IF S = {} THEN <<>>
    ELSE LET m == CHOOSE x \in S : \A y \in S : x = y \/ StrLess(x, y)
         IN  <<m>> \o sorted(S \ {m})

Range(seq) == {seq[i] : i \in 1..Len(seq)}

\* collections.Counter of a list
Counter(seq) ==
    [k \in Range(seq) |-> Cardinality({i \in 1..Len(seq) : seq[i] = k})]

RECURSIVE Flatten(_)
Flatten(seqs) ==
    IF seqs = <<>> THEN <<>> ELSE Head(seqs) \o Flatten(Tail(seqs))

\* all sequences over S of length at most n
RECURSIVE SeqsUpTo(_, _)
SeqsUpTo(S, n) ==
    IF n = 0 THEN {<<>>}
    ELSE LET shorter == SeqsUpTo(S, n - 1)
         IN  shorter \cup {Append(s, c) : s \in shorter, c \in S}

----------------------------------------------------------------------------
(* Values *)

\* a missing cell (pandas NaN)
NaN == <<"<NaN>">>

\* no word_tuple (Python None)
None == <<>>

Columns == {"A", "B"}
MergedColumn == "Merged Components"

IsSingle(p) == Len(p) = 1
IsMulti(p) == Len(p) > 1

single_letter_prefixes == SelectSeq(valid_prefixes, IsSingle)
multi_letter_prefixes == SelectSeq(valid_prefixes, IsMulti)

----------------------------------------------------------------------------
(* Regular expressions of the extraction and of the post-filter *)

\* '$': at the end of the string, or before a newline that ends it
EndOk(s, i) == i = Len(s) + 1 \/ (i = Len(s) /\ s[i] = "\n")

\* last index of the run of digits of s that starts at i (i - 1: no digit at i)
DigitRunEnd(s, i) ==
    CHOOSE e \in (i - 1)..Len(s) :
        /\ \A j \in i..e : s[j] \in Digits
        /\ (e = Len(s) \/ s[e + 1] \notin Digits)

\* re.match(r'^' + prefix + r'[0-9]+', word): not anchored at the end
re_match_unanchored(prefix, word) ==
    /\ startswith(word, prefix)
    /\ Len(word) > Len(prefix)
    /\ word[Len(prefix) + 1] \in Digits

\* re.match(r'^' + prefix + r'[0-9]+$', word), prefix a string of letters
re_match_prefix_digits(prefix, word) ==
    /\ startswith(word, prefix)
    /\ \E e \in (Len(prefix) + 1)..Len(word) :
          /\ \A j \in (Len(prefix) + 1)..e : word[j] \in Digits
          /\ EndOk(word, e + 1)

\* re.sub(r'[^A-Za-z0-9]', '', s)
re_sub_nonalnum(s) == SelectSeq(s, IsAlnum)

\* the alternatives of (?:' + '|'.join(multi_letter_prefixes) + r'): joining no
\* prefix gives the empty pattern
JoinedAlternatives ==
    IF multi_letter_prefixes = <<>> THEN << <<>> >> ELSE multi_letter_prefixes

AltMatchesAt(p, text, i) ==
    /\ i + Len(p) <= Len(text)
    /\ SubSeq(text, i, i + Len(p) - 1) = p
    /\ text[i + Len(p)] \in Digits

\* end of the match of (?:[A-Z][0-9]+|(?:m1|m2|...)[0-9]+) at position i, 0 if none
MatchEndAt(text, i) ==
    IF text[i] \in UpperLetters /\ i + 1 <= Len(text) /\ text[i + 1] \in Digits
    THEN DigitRunEnd(text, i + 1)
    ELSE IF \E k \in 1..Len(JoinedAlternatives) :
                AltMatchesAt(JoinedAlternatives[k], text, i)
    THEN LET k == CHOOSE n \in 1..Len(JoinedAlternatives) :
                      /\ AltMatchesAt(JoinedAlternatives[n], text, i)
                      /\ \A m \in 1..(n - 1) :
                            ~AltMatchesAt(JoinedAlternatives[m], text, i)
         IN  DigitRunEnd(text, i + Len(JoinedAlternatives[k]))
    ELSE 0

\* re.findall(pattern, text) from position i: leftmost matches, not overlapping
RECURSIVE FindAllFrom(_, _)
FindAllFrom(text, i) ==
    IF i > Len(text) THEN <<>>
    ELSE LET e == MatchEndAt(text, i)
         IN  IF e = 0 THEN FindAllFrom(text, i + 1)
             ELSE <<SubSeq(text, i, e)>> \o FindAllFrom(text, e + 1)

re_findall(text) == FindAllFrom(text, 1)

\* re.match(r'^(?:[A-Z][0-9]+|(?:' + '|'.join(valid_prefixes) + r')[0-9]+)$', comp)
FilterMatch(comp) ==
    \/ /\ Len(comp) >= 2
       /\ comp[1] \in UpperLetters
       /\ \E e \in 2..Len(comp) :
             /\ \A j \in 2..e : comp[j] \in Digits
             /\ EndOk(comp, e + 1)
    \/ \E k \in 1..Len(valid_prefixes) :
          re_match_prefix_digits(valid_prefixes[k], comp)

filter_components(S) == {comp \in S : FilterMatch(str_upper(comp))}

----------------------------------------------------------------------------
(* The spreadsheet *)

\* the cell's components without the upper()
CellCompsNoUpper(cell) ==
    IF cell # NaN /\ str_strip(cell) # <<>>
    THEN LET pieces == str_split(cell, ",")
             keep(p) == str_strip(p) # <<>>
             kept == SelectSeq(pieces, keep)
         IN  [i \in 1..Len(kept) |-> str_strip(kept[i])]
    ELSE <<>>

\* comps of one cell: [comp.strip().upper() for comp in str(row[col]).split(',')
\* if comp.strip()], when the cell is not missing and not blank
CellComps(cell) ==
    IF cell # NaN /\ str_strip(cell) # <<>>
    THEN LET pieces == str_split(cell, ",")
             keep(p) == str_strip(p) # <<>>
             kept == SelectSeq(pieces, keep)
         IN  [i \in 1..Len(kept) |-> str_upper(str_strip(kept[i]))]
    ELSE <<>>

\* [comp.strip().upper() for comp in item.split(",") if comp.strip()]
ItemComps(item) ==
    LET pieces == str_split(item, ",")
        keep(p) == str_strip(p) # <<>>
        kept == SelectSeq(pieces, keep)
    IN  [i \in 1..Len(kept) |-> str_upper(str_strip(kept[i]))]

\* components = set(); components.update(comps) for every selected column
RowComponents(row, cols) == UNION {Range(CellComps(row[col])) : col \in cols}

WithMerged(row, component) ==
    [c \in Columns \cup {MergedColumn} |->
        IF c = MergedColumn THEN component ELSE row[c]]

\* the rows one row expands into
ExpandRow(row, cols) ==
    LET comps == sorted(RowComponents(row, cols))
    IN  IF comps # <<>>
        THEN [i \in 1..Len(comps) |-> WithMerged(row, comps[i])]
        ELSE <<WithMerged(row, <<>>)>>

ExpandAll(rows, cols) ==
    Flatten([i \in 1..Len(rows) |-> ExpandRow(rows[i], cols)])

\* DataFrame.to_excel then pd.read_excel: text cells come back, an empty cell
\* comes back missing
ReadBackCell(cell) == IF cell = <<>> THEN NaN ELSE cell

ReadBack(rows) ==
    [i \in 1..Len(rows) |->
        [c \in DOMAIN rows[i] |-> ReadBackCell(rows[i][c])]]

\* the components of df['Merged Components'].dropna(), in order
MergedItems(rows) ==
    LET col == [i \in 1..Len(rows) |-> rows[i][MergedColumn]]
        notna(x) == x # NaN
        items == SelectSeq(col, notna)
    IN  Flatten([i \in 1..Len(items) |-> ItemComps(items[i])])

----------------------------------------------------------------------------
(* extract_components_from_pdf *)

AnyStartsWith(word) ==
    \E k \in 1..Len(valid_prefixes) : startswith(word, valid_prefixes[k])

\* a page's words: word_tuple = (box, text)
WordTuples(texts) == [i \in 1..Len(texts) |-> <<i, texts[i]>>]

\* strategy 1, one word_tuple: the observations appended for it
NativeWord(word_tuple, p) ==
    LET word == str_upper(re_sub_nonalnum(str_strip(word_tuple[2])))
    IN  IF AnyStartsWith(word)
        THEN IF \E k \in 1..Len(single_letter_prefixes) :
                    re_match_prefix_digits(single_letter_prefixes[k], word)
             THEN << <<word, p, word_tuple>> >>
             ELSE IF \E k \in 1..Len(multi_letter_prefixes) :
                        re_match_prefix_digits(multi_letter_prefixes[k], word)
             THEN << <<word, p, word_tuple>> >>
             ELSE <<>>
        ELSE <<>>

\* strategy 1, one page
NativePageObs(words, p) ==
    Flatten([i \in 1..Len(words) |-> NativeWord(words[i], p)])

\* strategies 2 and 3, one page: the words found in the upper-cased text that
\* start with a prefix
ScanText(raw, p) ==
    LET text == str_upper(raw)
        found == re_findall(text)
        hits == SelectSeq(found, AnyStartsWith)
    IN  [i \in 1..Len(hits) |-> <<hits[i], p, None>>]

\* a later strategy is tried whatever was found
AlwaysTry(c) == TRUE

\* if not components:
NoComponents(c) == c = <<>>

----------------------------------------------------------------------------
(* The conditions, the highlight colours and the report *)

pdf_components == {components[i][1] : i \in 1..Len(components)}

PdfCounter == Counter([i \in 1..Len(components) |-> components[i][1]])

Repeated(counts) == {comp \in DOMAIN counts : counts[comp] > 1}

\* Counter.get(comp, 0)
CountGet(counts, comp) == IF comp \in DOMAIN counts THEN counts[comp] ELSE 0

Max(a, b) == IF a >= b THEN a ELSE b

\* the repeated sets are looked up before the presence sets
HighlightColorRepeatedFirst(word) ==
    IF word \in repeated_pdf THEN "Red"
    ELSE IF word \in repeated_excel THEN "Cyan"
    ELSE IF word \in in_pdf_not_excel THEN "Yellow"
    ELSE IF word \in in_excel_not_pdf THEN "Blue"
    ELSE "Green"

\* the if / elif chain of highlight_components
HighlightColor(word) ==
    IF word \in in_pdf_not_excel THEN "Yellow"
    ELSE IF word \in in_excel_not_pdf THEN "Blue"
    ELSE IF word \in repeated_pdf THEN "Red"
    ELSE IF word \in repeated_excel THEN "Cyan"
    ELSE "Green"

\* one highlight annotation per observation that has a word_tuple
HighlightAll(list) ==
    LET hasBox(obs) == obs[3] # None
        drawn == SelectSeq(list, hasBox)
    IN  [i \in 1..Len(drawn) |->
            [page |-> drawn[i][2], box |-> drawn[i][3][1],
             color |-> HighlightColor(drawn[i][1])]]

ConditionKeys ==
    <<"repeated_pdf", "repeated_excel", "in_pdf_not_excel", "in_excel_not_pdf", "normal">>

ConditionName(key) ==
    CASE key = "repeated_pdf" -> "Repeated in PDF"
      [] key = "repeated_excel" -> "Repeated in Excel"
      [] key = "in_pdf_not_excel" -> "In PDF, not in Excel"
      [] key = "in_excel_not_pdf" -> "In Excel, not in PDF"
      [] key = "normal" -> "Normal"

ConditionColor(key) ==
    CASE key = "repeated_pdf" -> "Red"
      [] key = "repeated_excel" -> "Cyan"
      [] key = "in_pdf_not_excel" -> "Yellow"
      [] key = "in_excel_not_pdf" -> "Blue"
      [] key = "normal" -> "Green"

ConditionSets ==
    [key \in Range(ConditionKeys) |->
        CASE key = "repeated_pdf" -> repeated_pdf
          [] key = "repeated_excel" -> repeated_excel
          [] key = "in_pdf_not_excel" -> in_pdf_not_excel
          [] key = "in_excel_not_pdf" -> in_excel_not_pdf
          [] key = "normal" ->
                (pdf_components \cup excel_components) \
                (repeated_pdf \cup repeated_excel \cup in_pdf_not_excel
                    \cup in_excel_not_pdf)]

RepeatCount(key, comp) ==
    IF key \in {"repeated_pdf", "in_pdf_not_excel"} THEN CountGet(pdf_counts, comp)
    ELSE IF key \in {"repeated_excel", "in_excel_not_pdf"}
    THEN CountGet(excel_counts, comp)
    ELSE Max(CountGet(pdf_counts, comp), CountGet(excel_counts, comp))

\* the data rows of one sheet
SheetRows(key, comps) ==
    LET list == sorted(comps)
    IN  [i \in 1..Len(list) |->
            <<ConditionName(key), list[i], RepeatCount(key, list[i]),
              ConditionColor(key)>>]

----------------------------------------------------------------------------
(* Inputs *)

\* prefix lists the operator can configure (upper-case letters only)
PrefixConfigs ==
    { << <<"R">> >>,
      << <<"R">>, <<"C">> >>,
      << <<"R">>, <<"R", "R">> >> }

cellR1 == <<"R", "1">>
cellD5 == <<"D", "5">>
cellBlank == <<" ">>
\* "r1, R2,r1"
cellScenario1 == <<"r", "1", ",", " ", "R", "2", ",", "r", "1">>
\* "X1, THE1"
cellStray == <<"X", "1", ",", " ", "T", "H", "E", "1">>

Row(a, b) == [c \in Columns |-> IF c = "A" THEN a ELSE b]

\* spreadsheets uploaded in a whole run
SheetSamples ==
    { <<Row(cellR1, NaN)>>,
      <<Row(cellR1, NaN), Row(cellR1, cellD5)>>,
      <<Row(cellScenario1, cellBlank)>>,
      <<Row(cellStray, NaN)>> }

\* cells of the spreadsheets of the expansion: missing, blank, "R1", "r1,R1",
\* " r1 ,,R2"
CellValues ==
    { NaN, cellBlank, cellR1,
      <<"r", "1", ",", "R", "1">>,
      <<" ", "r", "1", " ", ",", ",", "R", "2">> }

RowsUpTo(n) ==
    UNION {[1..k -> [Columns -> CellValues]] : k \in 1..n}

\* the texts of the words of a page of the text layer
NativePageSamples ==
    { <<>>,
      << <<"R", "1">> >>,
      << <<"r", "-", "1">>, <<"C", "3">> >>,
      << <<"R", "1", "A">>, <<"R", "R", "1">> >> }

\* every one-word page over TokenChars
TokenChars == {"R", "r", "C", "1", "-", " "}

TokenPages == {<<t>> : t \in SeqsUpTo(TokenChars, MaxTokenLen)}

\* the text recognised on, or extracted from, a page
TextSamples ==
    { <<>>,
      <<"r", "1">>,
      <<"R", "1", "A">>,
      <<"X", "R", "1", "2">>,
      <<"R", "1", " ", "x", " ", "R", "1">>,
      <<"R", "R", "7", "\n", "1", "2">> }

InputFiles == {"input_excel_file", "input_pdf_file"}

----------------------------------------------------------------------------
(* The script run: upload, configuration, spreadsheet *)

\* lines 52-58: the temporary copies of the two uploads
Upload ==
    /\ pc = "idle"
    /\ \E sheet \in SheetSamples : excel_file' = sheet
    /\ tmp_files' = InputFiles
    /\ pc' = "read_excel"
    /\ UNCHANGED <<output_files, errors, sheetVars, configVars, extractVars,
                   analyzeVars, reportVars>>

ReadExcelOk ==
    /\ pc = "read_excel"
    /\ df' = excel_file
    /\ pc' = "configure"
    /\ UNCHANGED <<fileVars, expanded_rows, excel_components, excel_counts,
                   configVars, extractVars, analyzeVars, reportVars>>

\* st.error(...); st.stop()
Stop(message) ==
    /\ errors' = Append(errors, message)
    /\ pc' = "stopped"
    /\ UNCHANGED <<tmp_files, output_files, excel_file, sheetVars, configVars,
                   extractVars, analyzeVars, reportVars>>

ReadExcelFail ==
    /\ pc = "read_excel"
    /\ Stop("Error reading Excel file")

Configure ==
    /\ pc = "configure"
    /\ \E cols \in SUBSET Columns : component_columns' = cols
    /\ \E prefixes \in PrefixConfigs : valid_prefixes' = prefixes
    /\ pc' = "button"
    /\ UNCHANGED <<fileVars, sheetVars, extractVars, analyzeVars, reportVars>>

\* st.button("Process Files") is not pressed: the script run ends here
NoProcess ==
    /\ pc = "button"
    /\ pc' = "script_end"
    /\ UNCHANGED <<fileVars, sheetVars, configVars, extractVars, analyzeVars,
                   reportVars>>

\* lines 106-127
ProcessExcel ==
    /\ pc = "button"
    /\ expanded_rows' = ExpandAll(df, component_columns)
    /\ pc' = "save_excel"
    /\ UNCHANGED <<fileVars, df, excel_components, excel_counts, configVars,
                   extractVars, analyzeVars, reportVars>>

SaveExcelOk ==
    /\ pc = "save_excel"
    /\ output_files' = output_files \cup {"output_excel_file"}
    /\ pc' = "reread_excel"
    /\ UNCHANGED <<tmp_files, errors, excel_file, sheetVars, configVars,
                   extractVars, analyzeVars, reportVars>>

SaveExcelFail ==
    /\ pc = "save_excel"
    /\ Stop("Error saving modified Excel file")

\* lines 136-149
RereadExcelOk ==
    /\ pc = "reread_excel"
    /\ df' = ReadBack(expanded_rows)
    /\ excel_components' = Range(MergedItems(df'))
    /\ excel_counts' = Counter(MergedItems(df'))
    /\ pc' = "open_pdf"
    /\ UNCHANGED <<fileVars, expanded_rows, configVars, extractVars, analyzeVars,
                   reportVars>>

RereadExcelFail ==
    /\ pc = "reread_excel"
    /\ Stop("Error reading modified Excel file")

----------------------------------------------------------------------------
(* The document: fitz.open and extract_components_from_pdf *)

NoContribution == [k \in 1..3 |-> 0]

OpenPdfOk ==
    /\ pc = "open_pdf"
    /\ \E n \in 1..MaxPages : num_pages' = n
    /\ page_num' = 0
    /\ components' = <<>>
    /\ started' = <<1>>
    /\ pc' = "native"
    /\ UNCHANGED <<fileVars, sheetVars, configVars, warnings, finished, threw,
                   contributed, lastRead, lastBase, analyzeVars, reportVars>>

OpenPdfFail ==
    /\ pc = "open_pdf"
    /\ Stop("Error opening PDF file")

\* a page step of strategy k appends obs after reading `read`
PageStep(k, read, obs) ==
    /\ components' = components \o obs
    /\ page_num' = page_num + 1
    /\ contributed' = [contributed EXCEPT ![k] = @ + Len(obs)]
    /\ lastRead' = read
    /\ lastBase' = Len(components)
    /\ UNCHANGED <<pc, fileVars, sheetVars, configVars, num_pages, warnings,
                   started, finished, threw, analyzeVars, reportVars>>

\* lines 154-162, one page of the text layer
NativePage(Pages) ==
    /\ pc = "native"
    /\ page_num < num_pages
    /\ \E texts \in Pages :
          LET words == WordTuples(texts)
          IN  PageStep(1, words, NativePageObs(words, page_num + 1))

\* strategy k is left: the next `if not components:` decides what runs
Leave(k, next) ==
    /\ finished' = finished \cup {k}
    /\ IF k < 3 /\ NoComponents(components)
       THEN /\ pc' = next
            /\ started' = Append(started, k + 1)
       ELSE /\ pc' = "extracted"
            /\ UNCHANGED started
    /\ UNCHANGED <<fileVars, sheetVars, configVars, num_pages, page_num,
                   components, contributed, lastRead, lastBase, analyzeVars,
                   reportVars>>

\* the loop of strategy 1 ends; lines 165 and 177 see the same components
NativeDone ==
    /\ pc = "native"
    /\ page_num = num_pages
    /\ Leave(1, "ocr_convert")
    /\ UNCHANGED <<warnings, threw>>

\* line 167: images = convert_from_path(doc.name)
OcrConvertOk ==
    /\ pc = "ocr_convert"
    /\ pc' = "ocr"
    /\ page_num' = 0
    /\ UNCHANGED <<fileVars, sheetVars, configVars, num_pages, components,
                   warnings, started, finished, threw, contributed, lastRead,
                   lastBase, analyzeVars, reportVars>>

\* lines 168-172, one image
OcrPage ==
    /\ pc = "ocr"
    /\ page_num < num_pages
    /\ \E text \in TextSamples :
          PageStep(2, text, ScanText(text, page_num + 1))

\* lines 173-174: the rasterizer or the recognizer raises
OcrRaise ==
    /\ \/ pc = "ocr_convert"
       \/ pc = "ocr" /\ page_num < num_pages
    /\ warnings' = Append(warnings, "OCR error")
    /\ threw' = threw \cup {2}
    /\ Leave(2, "plumber_open")

OcrDone ==
    /\ pc = "ocr"
    /\ page_num = num_pages
    /\ Leave(2, "plumber_open")
    /\ UNCHANGED <<warnings, threw>>

\* line 179: pdfplumber.open(doc.name)
PlumberOpenOk ==
    /\ pc = "plumber_open"
    /\ pc' = "plumber"
    /\ page_num' = 0
    /\ UNCHANGED <<fileVars, sheetVars, configVars, num_pages, components,
                   warnings, started, finished, threw, contributed, lastRead,
                   lastBase, analyzeVars, reportVars>>

\* lines 180-184, one page
PlumberPage ==
    /\ pc = "plumber"
    /\ page_num < num_pages
    /\ \E text \in TextSamples :
          PageStep(3, text, ScanText(text, page_num + 1))

\* lines 185-186
PlumberRaise ==
    /\ \/ pc = "plumber_open"
       \/ pc = "plumber" /\ page_num < num_pages
    /\ warnings' = Append(warnings, "pdfplumber error")
    /\ threw' = threw \cup {3}
    /\ Leave(3, "extracted")

PlumberDone ==
    /\ pc = "plumber"
    /\ page_num = num_pages
    /\ Leave(3, "extracted")
    /\ UNCHANGED <<warnings, threw>>

----------------------------------------------------------------------------
(* Conditions, highlights, report, clean-up *)

\* lines 198-214
Analyze ==
    /\ pc = "extracted"
    /\ pdf_counts' = PdfCounter
    /\ repeated_pdf' = filter_components(Repeated(PdfCounter))
    /\ repeated_excel' = filter_components(Repeated(excel_counts))
    /\ in_pdf_not_excel' = filter_components(pdf_components \ excel_components)
    /\ in_excel_not_pdf' = filter_components(excel_components \ pdf_components)
    /\ pc' = "highlight"
    /\ UNCHANGED <<fileVars, sheetVars, configVars, extractVars, reportVars>>

\* lines 217-244
Highlight ==
    /\ pc = "highlight"
    /\ markers' = HighlightAll(components)
    /\ pc' = "save_pdf"
    /\ UNCHANGED <<fileVars, sheetVars, configVars, extractVars, analyzeVars,
                   condition_components, report>>

SavePdfOk ==
    /\ pc = "save_pdf"
    /\ output_files' = output_files \cup {"output_pdf_file"}
    /\ pc' = "build_report"
    /\ UNCHANGED <<tmp_files, errors, excel_file, sheetVars, configVars,
                   extractVars, analyzeVars, reportVars>>

SavePdfFail ==
    /\ pc = "save_pdf"
    /\ Stop("Error saving PDF")

\* lines 272-331
BuildReport ==
    /\ pc = "build_report"
    /\ condition_components' = ConditionSets
    /\ report' = [key \in Range(ConditionKeys) |-> SheetRows(key, ConditionSets[key])]
    /\ pc' = "save_report"
    /\ UNCHANGED <<fileVars, sheetVars, configVars, extractVars, analyzeVars,
                   markers>>

SaveReportOk ==
    /\ pc = "save_report"
    /\ output_files' = output_files \cup {"output_report_file"}
    /\ pc' = "cleanup"
    /\ UNCHANGED <<tmp_files, errors, excel_file, sheetVars, configVars,
                   extractVars, analyzeVars, reportVars>>

SaveReportFail ==
    /\ pc = "save_report"
    /\ Stop("Error generating report")

\* lines 339-364
Cleanup ==
    /\ pc = "cleanup"
    /\ tmp_files' = tmp_files \ InputFiles
    /\ output_files' = {}
    /\ pc' = "done"
    /\ UNCHANGED <<errors, excel_file, sheetVars, configVars, extractVars,
                   analyzeVars, reportVars>>

----------------------------------------------------------------------------
(* Specifications *)

NoReport == [key \in Range(ConditionKeys) |-> <<>>]
NoConditions == [key \in Range(ConditionKeys) |-> {}]

\* the values before the run reaches the step that sets them
Blank ==
    /\ errors = <<>>
    /\ output_files = {}
    /\ expanded_rows = <<>>
    /\ excel_components = {}
    /\ excel_counts = <<>>
    /\ num_pages = 0
    /\ page_num = 0
    /\ components = <<>>
    /\ warnings = <<>>
    /\ started = <<>>
    /\ finished = {}
    /\ threw = {}
    /\ contributed = NoContribution
    /\ lastRead = <<>>
    /\ lastBase = 0
    /\ pdf_counts = <<>>
    /\ repeated_pdf = {}
    /\ repeated_excel = {}
    /\ in_pdf_not_excel = {}
    /\ in_excel_not_pdf = {}
    /\ markers = <<>>
    /\ condition_components = NoConditions
    /\ report = NoReport

\* the whole run, from the upload
Init ==
    /\ pc = "idle"
    /\ tmp_files = {}
    /\ excel_file = <<>>
    /\ df = <<>>
    /\ component_columns = {}
    /\ valid_prefixes = << <<"R">> >>
    /\ Blank

Next ==
    \/ Upload
    \/ ReadExcelOk
    \/ ReadExcelFail
    \/ Configure
    \/ NoProcess
    \/ ProcessExcel
    \/ SaveExcelOk
    \/ SaveExcelFail
    \/ RereadExcelOk
    \/ RereadExcelFail
    \/ OpenPdfOk
    \/ OpenPdfFail
    \/ NativePage(NativePageSamples)
    \/ NativeDone
    \/ OcrConvertOk
    \/ OcrPage
    \/ OcrRaise
    \/ OcrDone
    \/ PlumberOpenOk
    \/ PlumberPage
    \/ PlumberRaise
    \/ PlumberDone
    \/ Analyze
    \/ Highlight
    \/ SavePdfOk
    \/ SavePdfFail
    \/ BuildReport
    \/ SaveReportOk
    \/ SaveReportFail
    \/ Cleanup

Spec == Init /\ [][Next]_vars

\* the spreadsheet steps, over every spreadsheet of up to MaxRows rows of CellValues
InitSheet ==
    /\ pc = "button"
    /\ tmp_files = InputFiles
    /\ excel_file \in RowsUpTo(MaxRows)
    /\ df = excel_file
    /\ component_columns \in SUBSET Columns
    /\ valid_prefixes = << <<"R">> >>
    /\ Blank

NextSheet ==
    \/ ProcessExcel
    \/ SaveExcelOk
    \/ RereadExcelOk

SpecSheet == InitSheet /\ [][NextSheet]_vars

\* strategy 1 on a one-page document, over every token of up to MaxTokenLen
\* characters of TokenChars
InitMatch ==
    /\ pc = "native"
    /\ tmp_files = InputFiles
    /\ excel_file = <<Row(cellR1, NaN)>>
    /\ df = ReadBack(ExpandAll(excel_file, {}))
    /\ component_columns = {}
    /\ valid_prefixes \in PrefixConfigs
    /\ errors = <<>>
    /\ output_files = {"output_excel_file"}
    /\ expanded_rows = ExpandAll(excel_file, {})
    /\ excel_components = {}
    /\ excel_counts = <<>>
    /\ num_pages = 1
    /\ page_num = 0
    /\ components = <<>>
    /\ warnings = <<>>
    /\ started = <<1>>
    /\ finished = {}
    /\ threw = {}
    /\ contributed = NoContribution
    /\ lastRead = <<>>
    /\ lastBase = 0
    /\ pdf_counts = <<>>
    /\ repeated_pdf = {}
    /\ repeated_excel = {}
    /\ in_pdf_not_excel = {}
    /\ in_excel_not_pdf = {}
    /\ markers = <<>>
    /\ condition_components = NoConditions
    /\ report = NoReport

NextMatch == NativePage(TokenPages)

SpecMatch == InitMatch /\ [][NextMatch]_vars

----------------------------------------------------------------------------
(* What the claims are stated with *)

ConfiguredPrefixes == Range(valid_prefixes)

\* exactly one configured prefix followed by one or more decimal digits
IsValidIdentifier(s) ==
    \E p \in ConfiguredPrefixes :
        \E n \in 1..Len(s) :
            /\ Len(s) = Len(p) + n
            /\ \A i \in 1..Len(p) : s[i] = p[i]
            /\ \A i \in (Len(p) + 1)..Len(s) : s[i] \in Digits

\* canonical form: non-alphanumeric characters removed, then upper-cased
Canonical(raw) ==
    LET kept == SelectSeq(raw, IsAlnum)
    IN  [i \in 1..Len(kept) |-> UpperChar(kept[i])]

\* the whitespace-delimited words of a text
WhitespaceWords(text) ==
    {SubSeq(text, a, b) : <<a, b>> \in
        {<<a, b>> \in (1..Len(text)) \X (1..Len(text)) :
            /\ a <= b
            /\ \A i \in a..b : text[i] \notin Whitespace
            /\ (a = 1 \/ text[a - 1] \in Whitespace)
            /\ (b = Len(text) \/ text[b + 1] \in Whitespace)}}

\* the observations the last page step appended
Appended == SubSeq(components, lastBase + 1, Len(components))

RECURSIVE Sum(_)
Sum(seq) == IF seq = <<>> THEN 0 ELSE Head(seq) + Sum(Tail(seq))

\* the identifiers between the commas of a cell
CellIdentifiers(cell) ==
    IF cell = NaN THEN {}
    ELSE {id \in {str_upper(str_strip(SubSeq(cell, a, b))) : <<a, b>> \in
                    {<<a, b>> \in (1..Len(cell)) \X (1..Len(cell)) :
                        /\ a <= b
                        /\ \A i \in a..b : cell[i] # ","
                        /\ (a = 1 \/ cell[a - 1] = ",")
                        /\ (b = Len(cell) \/ cell[b + 1] = ",")}} :
             id # <<>>}

\* the identifiers of a row of the uploaded spreadsheet, in the selected columns
RowIdentifiers(row) == UNION {CellIdentifiers(row[col]) : col \in component_columns}

RowsWith(id) == {i \in 1..Len(excel_file) : id \in RowIdentifiers(excel_file[i])}

MergedRowsWith(id) ==
    {i \in 1..Len(expanded_rows) : expanded_rows[i][MergedColumn] = id}

SheetIdentifiers ==
    UNION {RowIdentifiers(excel_file[i]) : i \in 1..Len(excel_file)}

HighlightsDrawn == pc \in {"save_pdf", "build_report", "save_report", "cleanup", "done"}

ReportBuilt == pc \in {"save_report", "cleanup", "done"}

\* the identifiers listed on a report sheet
SheetListing(key) == {report[key][i][2] : i \in 1..Len(report[key])}

\* presence mismatches before duplications
Priority ==
    << [ids |-> in_pdf_not_excel, color |-> "Yellow"],
       [ids |-> in_excel_not_pdf, color |-> "Blue"],
       [ids |-> repeated_pdf, color |-> "Red"],
       [ids |-> repeated_excel, color |-> "Cyan"] >>

PriorityColor(id) ==
    IF \E n \in 1..Len(Priority) : id \in Priority[n].ids
    THEN Priority[CHOOSE n \in 1..Len(Priority) :
                      /\ id \in Priority[n].ids
                      /\ \A m \in 1..(n - 1) : id \notin Priority[m].ids].color
    ELSE "Green"

----------------------------------------------------------------------------
(* The claims *)

\* C1: the strategies start in the order 1, 2, 3; one starts only after the one
\* before it was left and while no strategy has appended an observation, so
\* nothing runs after a strategy that produced a result.
C1_StrictFallbackOrder ==
    /\ Len(started) <= 3
    /\ \A i \in 1..Len(started) : started[i] = i
    /\ \A i \in 2..Len(started) :
          /\ (i - 1) \in finished
          /\ \A j \in 1..(i - 1) : contributed[j] = 0

\* C1 witness: strategy 2 ran after an empty strategy 1, found something, and
\* strategy 3 never started.
C1_Witness ==
    /\ pc = "extracted"
    /\ started = <<1, 2>>
    /\ contributed[1] = 0
    /\ contributed[2] > 0

\* C2: a strategy that raised has issued its warning, contributes no observation
\* to the result, and (strategy 2) is followed by strategy 3.
C2_RaisedStrategyContributesNothing ==
    \A k \in threw :
        /\ \E i \in 1..Len(warnings) :
              warnings[i] = (IF k = 2 THEN "OCR error" ELSE "pdfplumber error")
        /\ contributed[k] = 0
        /\ (k = 2 => 3 \in Range(started))

\* C3: after the post-filter every identifier of the four derived sets is one
\* configured prefix followed by digits.
C3_FilteredSetsAreConfiguredIdentifiers ==
    \A id \in repeated_pdf \cup repeated_excel \cup in_pdf_not_excel
                \cup in_excel_not_pdf :
        IsValidIdentifier(id)

\* C4: an identifier that matches no configured prefix pattern is in none of the
\* five condition sets of the report, the normal set included.
C4_NoStrayIdentifierInAnyCondition ==
    \A key \in Range(ConditionKeys) :
        \A id \in condition_components[key] : IsValidIdentifier(id)

\* C5: every identifier of the report is a row of exactly one of the five sheets.
C5_OneSheetPerIdentifier ==
    ReportBuilt =>
        \A id \in UNION {SheetListing(key) : key \in Range(ConditionKeys)} :
            Cardinality({key \in Range(ConditionKeys) : id \in SheetListing(key)}) = 1

\* C6: when a run has ended, by success or by a failure, no temporary input file
\* is left on disk.
C6_TempFilesDeletedAtRunEnd ==
    pc \in {"done", "stopped"} => tmp_files \cap InputFiles = {}

\* C7: strategy 1 appends, for the words of a page in order, exactly one
\* observation (canonical form, page number, word_tuple) for each word whose
\* canonical form is a valid identifier, and nothing for the others.
C7_NativeKeepsExactlyValidTokens ==
    (pc = "native" /\ page_num > 0) =>
        Appended =
            Flatten([i \in 1..Len(lastRead) |->
                IF IsValidIdentifier(Canonical(lastRead[i][2]))
                THEN << <<Canonical(lastRead[i][2]), page_num, lastRead[i]>> >>
                ELSE <<>>])

\* C7 witness: a token that is not in canonical form was kept, with its page
\* and its region.
C7_Witness ==
    /\ pc = "native"
    /\ page_num > 0
    /\ Len(lastRead) = 1
    /\ lastRead[1][2] # Canonical(lastRead[1][2])
    /\ Appended = << <<Canonical(lastRead[1][2]), page_num, lastRead[1]>> >>

\* C8: every observation with a region has one marker, coloured by the priority
\* only-in-document, only-in-spreadsheet, repeated-in-document,
\* repeated-in-spreadsheet, normal.
C8_MarkerColorByPriority ==
    HighlightsDrawn =>
        LET hasBox(obs) == obs[3] # None
            boxed == SelectSeq(components, hasBox)
        IN  /\ Len(markers) = Len(boxed)
            /\ \A i \in 1..Len(boxed) :
                  /\ markers[i].page = boxed[i][2]
                  /\ markers[i].box = boxed[i][3][1]
                  /\ markers[i].color = PriorityColor(boxed[i][1])

\* C8 witness: an identifier repeated in the document and absent from the
\* spreadsheet is marked yellow.
C8_Witness ==
    /\ HighlightsDrawn
    /\ \E i \in 1..Len(markers) :
          \E j \in 1..Len(components) :
              /\ components[j][3] # None
              /\ components[j][2] = markers[i].page
              /\ components[j][3][1] = markers[i].box
              /\ components[j][1] \in repeated_pdf \cap in_pdf_not_excel
              /\ markers[i].color = "Yellow"

\* C9: an observation of strategies 2 and 3 has no region and is a
\* whitespace-delimited word of the page text whose normal form is a valid
\* identifier.
C9_OnlyWholeWordsMatch ==
    (pc \in {"ocr", "plumber"} /\ page_num > 0) =>
        \A i \in 1..Len(Appended) :
            /\ Appended[i][3] = None
            /\ \E w \in WhitespaceWords(lastRead) :
                  /\ Canonical(w) = Appended[i][1]
                  /\ IsValidIdentifier(Canonical(w))

====
